---- MODULE Spec2Model ----
(***************************************************************************)
(* Kusg245_250A microwave generator driver (command / acknowledgement      *)
(* protocol over a serial byte stream) and the InstrumentControlWidget     *)
(* that drives an instrument from a GUI thread and a polling thread.       *)
(*                                                                         *)
(* Strings are modelled as tuples of one-character strings, so that        *)
(* endswith, slicing, %-formatting and int() parsing are computed.         *)
(***************************************************************************)
EXTENDS Integers, Sequences, FiniteSets, TLC

\* ------------------------------------------------------------------ bounds
\* how far the enumerated inputs reach outside the legal ranges
Margin == 2
\* data bytes 0..MaxData are enumerated in responses (plus a few others)
MaxData == 6

\* ------------------------------------------------------- module constants
TermByte == 13
MaxPowerLimit == 250
FineMin == 2400000
FineMax == 2500000
SettleMs == 500

termination_character == <<"\r">>
reflection_limit_map == [c \in 0..5 |-> <<0, 100, 150, 180, 200, 230>>[c + 1]]

Threads == {"gui", "poll"}

\* --------------------------------------------------- python string helpers
Digits == <<"0", "1", "2", "3", "4", "5", "6", "7", "8", "9">>

RECURSIVE DecDigits(_)
DecDigits(n) ==
    IF n < 10 THEN <<Digits[n + 1]>>
    ELSE Append(DecDigits(n \div 10), Digits[(n % 10) + 1])

RECURSIVE ZeroPad(_, _)
ZeroPad(s, w) == IF Len(s) >= w THEN s ELSE ZeroPad(<<"0">> \o s, w)

\* "%0<w>d" % n
FormatD(n, w) ==
    IF n >= 0 THEN ZeroPad(DecDigits(n), w)
    ELSE <<"-">> \o ZeroPad(DecDigits(0 - n), w - 1)

EndsWith(s, suffix) ==
    /\ Len(s) >= Len(suffix)
    /\ SubSeq(s, Len(s) - Len(suffix) + 1, Len(s)) = suffix

\* replies are tuples of byte values; text is compared through its ASCII codes
Ord0 == 48
IsDigit(c) == Ord0 <= c /\ c <= Ord0 + 9
DigitVal(c) == c - Ord0

RECURSIVE ParseDigits(_)
ParseDigits(s) ==
    IF s = <<>> THEN 0
    ELSE 10 * ParseDigits(SubSeq(s, 1, Len(s) - 1)) + DigitVal(s[Len(s)])

\* int(s) / float(s) succeed on a non-empty run of decimal digits
IsIntLiteral(s) == s # <<>> /\ \A i \in 1..Len(s) : IsDigit(s[i])

\* --------------------------------------------------------------- validators
truncated_range(value, lo, hi) ==
    IF lo <= value /\ value <= hi THEN value
    ELSE IF value > hi THEN hi
    ELSE lo

\* the smallest member of the set that is >= value, else the largest member
truncated_discrete_set(value, values) ==
    IF \E v \in values : value <= v
    THEN CHOOSE v \in values : value <= v /\ \A u \in values : value <= u => v <= u
    ELSE CHOOSE v \in values : \A u \in values : u <= v

\* strict_discrete_set(value, values): the value is returned when it is a
\* member of values, a ValueError is raised otherwise
strict_discrete_set(value, values) == value \in values

\* round(v, -1) on an int: nearest multiple of ten, ties to the even multiple
round_tens(v) ==
    LET q == v \div 10
        r == v % 10
    IN  IF r < 5 THEN 10 * q
        ELSE IF r > 5 THEN 10 * (q + 1)
        ELSE IF q % 2 = 0 THEN 10 * q ELSE 10 * (q + 1)

\* ------------------------------------------------------ acknowledgement rule
NoAckCommands == {<<"v">>, <<"5">>, <<"8">>, <<"6">>, <<"7">>, <<"T">>}

\* variant: only the allow-list is exempt from the acknowledgement
AckExpectedOutsideAllowList(command) == command \notin NoAckCommands

_is_expecting_acknowledgement(command) ==
    IF command \in NoAckCommands THEN FALSE
    ELSE IF EndsWith(command, <<"?">>) THEN FALSE
    ELSE TRUE

_has_correct_termination_character(b) == b[Len(b)] = TermByte


\* ------------------------------------------------------------------- state
VARIABLES
    limit_arg,              \* the power_limit argument given to __init__
    constructed,            \* __init__ returned: the handler exists
    power_limit,            \* self._power_limit
    power_setpoint_values,  \* self.power_setpoint_values (dynamic range)
    py311,                  \* interpreter gives int.from_bytes a default byteorder
    pc,                     \* per thread: "idle", "run", "ack", "join"
    op,                     \* per thread: the operation being (or last) executed
    todo,                   \* per thread: the remaining steps of the operation
    sent,                   \* per thread: commands written by the operation, in order
    elapsed,                \* per thread: milliseconds slept inside the operation
    nread,                  \* per thread: reads performed by the operation
    resp,                   \* per thread: the last response read by the operation
    result,                 \* per thread: outcome of the operation
    auto_read,              \* widget: self.auto_read
    auto_write,             \* widget: self.auto_write
    auto_read_box,          \* widget: the Auto Read checkbox is checked
    auto_write_box,         \* widget: the Auto Write checkbox is checked
    read_enabled,           \* widget: the Read button is enabled
    write_enabled,          \* widget: the Write button is enabled
    connected,              \* widget: valueChanged is connected to apply_setting
    running,                \* widget: update_thread is running
    should_stop             \* widget: update_thread has been asked to stop

vars == <<limit_arg, constructed, power_limit, power_setpoint_values, py311, pc, op, todo, sent, elapsed,
          nread, resp, result, auto_read, auto_write, auto_read_box, auto_write_box,
          read_enabled, write_enabled, connected, running, should_stop>>

widget_vars == <<auto_read, auto_write, auto_read_box, auto_write_box, read_enabled,
                 write_enabled, connected, running, should_stop>>
config_vars == <<limit_arg, constructed, power_limit, power_setpoint_values, py311>>

NoVal == 0 - 1
NoResult == [status |-> "none", exc |-> "", msg |-> "", byte |-> NoVal,
             val |-> NoVal, den |-> 1]
Done == [NoResult EXCEPT !.status = "ok"]
\* a returned number val/den
Value(num, d) == [NoResult EXCEPT !.status = "ok", !.val = num, !.den = d]
Raised(e, m, b) == [NoResult EXCEPT !.status = "raised", !.exc = e, !.msg = m, !.byte = b]

\* steps of an operation
W(cmd) == [k |-> "write", cmd |-> cmd, n |-> 0, name |-> ""]
RB(name, n) == [k |-> "read_bytes", cmd |-> <<>>, n |-> n, name |-> name]
RD(name) == [k |-> "read", cmd |-> <<>>, n |-> 0, name |-> name]
SL(ms) == [k |-> "sleep", cmd |-> <<>>, n |-> ms, name |-> ""]

\* ---------------------------------------------------------------- responses
AckByte == 65
ByteVals == (0..MaxData) \cup {TermByte, AckByte, AckByte + 1, 255}

RECURSIVE Tuples(_, _)
Tuples(n, S) ==
    IF n = 0 THEN {<<>>}
    ELSE {Append(t, x) : t \in Tuples(n - 1, S), x \in S}

\* what read_bytes(n) can return
WordVals == {0, 1, 255, TermByte}
BinReplies(n) ==
    IF n = 3 THEN {t \o <<x>> : t \in Tuples(2, WordVals), x \in ByteVals}
    ELSE Tuples(n, ByteVals)

kHz == <<107, 72, 122>>
MHz == <<77, 72, 122>>
Text2450010 == <<50, 52, 53, 48, 48, 49, 48>>
Text2450 == <<50, 52, 53, 48>>

\* the bytes that can be waiting when read() is called
AckReplies == {<<AckByte>>} \cup {<<x, TermByte>> : x \in ByteVals}
TextReplies ==
    Tuples(2, ByteVals)
    \cup {Text2450010 \o kHz \o <<TermByte>>, Text2450 \o MHz \o <<TermByte>>,
          Text2450010 \o <<TermByte>>, kHz \o <<TermByte>>}

\* read(): the bytes before the first read-termination byte; without one the
\* read times out
HasTerm(b) == \E i \in 1..Len(b) : b[i] = TermByte
FirstTerm(b) == CHOOSE i \in 1..Len(b) : b[i] = TermByte /\ \A j \in 1..(i - 1) : b[j] # TermByte
read(b) == SubSeq(b, 1, FirstTerm(b) - 1)

\* ----------------------------------------------------------- typed accessors
BinGetters == {"voltage_5v", "voltage_32v", "power_forward", "power_reverse",
               "external_enabled", "bias_enabled", "rf_enabled",
               "pulse_mode_enabled", "phase_shift", "reflection_limit"}
ControlGetters == {"freq_steps_fine_enabled", "frequency_coarse", "frequency_fine",
                   "power_setpoint"}

GetCommand(name) ==
    CASE name = "voltage_5v" -> <<"5">>
      [] name = "voltage_32v" -> <<"8">>
      [] name = "power_forward" -> <<"6">>
      [] name = "power_reverse" -> <<"7">>
      [] name = "external_enabled" -> <<"r", "?">>
      [] name = "bias_enabled" -> <<"x", "?">>
      [] name = "rf_enabled" -> <<"o", "?">>
      [] name = "pulse_mode_enabled" -> <<"p", "?">>
      [] name = "phase_shift" -> <<"H", "?">>
      [] name = "reflection_limit" -> <<"B", "?">>
      [] name = "freq_steps_fine_enabled" -> <<"f", "m", "?">>
      [] name = "frequency_coarse" -> <<"f", "?">>
      [] name = "frequency_fine" -> <<"f", "?">>
      [] name = "power_setpoint" -> <<"A", "?">>

GetNBytes(name) == IF name \in {"voltage_5v", "voltage_32v"} THEN 3 ELSE 2

\* int.from_bytes(bs) called without a byteorder: big-endian by default where the
\* interpreter has a default, a TypeError where it has none
RECURSIVE BigEndian(_)
BigEndian(bs) ==
    IF bs = <<>> THEN 0
    ELSE 256 * BigEndian(SubSeq(bs, 1, Len(bs) - 1)) + bs[Len(bs)]

\* bool.from_bytes(bs, byteorder): the integer is non-zero iff some byte is
BoolFromBytes(bs) == \E i \in 1..Len(bs) : bs[i] # 0

MissingByteorder == Raised("TypeError", "from_bytes() missing required argument 'byteorder'", NoVal)

FramingError(b) ==
    Raised("ConnectionError", "Invalid termination character received", b[Len(b)])

\* variant: a code outside the map is read as "no limit"
ReflectionLimitFromCodeOrZero(code) ==
    IF code \in DOMAIN reflection_limit_map
    THEN Value(reflection_limit_map[code], 1)
    ELSE Value(0, 1)

\* reflection_limit getter: reflection_limit_map[b[0]], a KeyError for a code
\* that is not in the map
ReflectionLimitFromCode(code) ==
    IF code \in DOMAIN reflection_limit_map
    THEN Value(reflection_limit_map[code], 1)
    ELSE Raised("KeyError", "", code)

\* the property getters that read a fixed number of bytes
Decode(name, b, has_default) ==
    IF ~_has_correct_termination_character(b) THEN FramingError(b)
    ELSE IF name = "reflection_limit" THEN ReflectionLimitFromCode(b[1])
    ELSE IF ~has_default THEN MissingByteorder
    ELSE CASE name = "voltage_5v" -> Value(103 * BigEndian(SubSeq(b, 1, 2)), 4700)
           [] name = "voltage_32v" -> Value(1282 * BigEndian(SubSeq(b, 1, 2)), 8200)
           [] name \in {"power_forward", "power_reverse"} ->
                Value(BigEndian(SubSeq(b, 1, 1)), 1)
           [] name = "phase_shift" -> Value(BigEndian(SubSeq(b, 1, 1)) * 360, 256)
           [] OTHER -> Value(IF BigEndian(SubSeq(b, 1, 1)) # 0 THEN 1 ELSE 0, 1)

\* Instrument.values: a reply that parses as a number is cast to float
CastsToFloat(v) == IsIntLiteral(v)

\* Instrument.control getters: get_process applied to the value read
GetProcess(name, v) ==
    IF name = "power_setpoint" THEN
        IF CastsToFloat(v) THEN Value(ParseDigits(v), 1) ELSE [Done EXCEPT !.msg = "str"]
    ELSE IF CastsToFloat(v) THEN Raised("AttributeError", "float", NoVal)
    ELSE IF name = "freq_steps_fine_enabled"
         THEN Value(IF BoolFromBytes(v) THEN 1 ELSE 0, 1)
    ELSE LET unit == IF name = "frequency_fine" THEN kHz ELSE MHz
         IN  IF ~EndsWith(v, unit) THEN Done
             ELSE IF IsIntLiteral(SubSeq(v, 1, Len(v) - 3))
                  THEN Value(ParseDigits(SubSeq(v, 1, Len(v) - 3)), 1)
                  ELSE Raised("ValueError", "invalid literal for int()", NoVal)


\* ------------------------------------------------------------- set commands
\* variant: the static range of the control is kept
StaticSetpointValues(limit) == <<0, MaxPowerLimit>>

\* __init__: self.power_setpoint_values = [0, power_limit]
InitPowerSetpointValues(limit) == <<0, limit>>

\* power_setpoint = Instrument.control("A?", "A%03d", truncated_range, dynamic)
PowerSetpointCommand(v, values) ==
    <<"A">> \o FormatD(truncated_range(v, values[1], values[2]), 3)

\* variant: tune clamps to the largest limit instead of the configured one
TuneCommandGlobalLimit(power, limit) ==
    <<"b">> \o FormatD(truncated_range(power, 0, MaxPowerLimit), 3)

\* tune(power)
TuneCommand(power, limit) == <<"b">> \o FormatD(truncated_range(power, 0, limit), 3)

\* variant: ties are rounded up
FrequencyFineCommandHalfUp(v) ==
    <<"f">> \o FormatD(10 * ((truncated_range(v, FineMin, FineMax) + 5) \div 10), 7)

\* frequency_fine = Instrument.control("f?", "f%07d", truncated_range, round(v, -1))
FrequencyFineCommand(v) ==
    <<"f">> \o FormatD(round_tens(truncated_range(v, FineMin, FineMax)), 7)

ReflectionLimitValues == {reflection_limit_map[c] : c \in DOMAIN reflection_limit_map}

\* variant: the code is counted from one
ReflectionLimitCommandOneBased(v) ==
    LET value == truncated_discrete_set(v, ReflectionLimitValues)
        code == CHOOSE c \in DOMAIN reflection_limit_map : reflection_limit_map[c] = value
    IN  <<"B">> \o FormatD(code + 1, 1)

\* variant: the value is truncated downwards, to the largest member below it
ReflectionLimitCommandFloor(v) ==
    LET below == {m \in ReflectionLimitValues : m <= v}
        value == IF below = {} THEN 0 ELSE CHOOSE m \in below : \A u \in below : u <= m
        code == CHOOSE c \in DOMAIN reflection_limit_map : reflection_limit_map[c] = value
    IN  <<"B">> \o FormatD(code, 1)

\* reflection_limit setter
ReflectionLimitCommand(v) ==
    LET value == truncated_discrete_set(v, ReflectionLimitValues)
        code == CHOOSE c \in DOMAIN reflection_limit_map : reflection_limit_map[c] = value
    IN  <<"B">> \o FormatD(code, 1)

\* phase_shift is given in tenths of a degree
PhaseMaxTenths == 3586

\* phase_shift setter: int(round(truncated_range(value, [0, 358.6])) / 360.0 * 256.0)
PhaseShiftCommand(v) ==
    LET degrees == round_tens(truncated_range(v, 0, PhaseMaxTenths)) \div 10
    IN  <<"H">> \o FormatD((degrees * 256) \div 360, 3)

PulseMin == 10
PulseMax == 1000

\* variant: the duration is rounded to the nearest ten
PulseTimingCommandTens(letter, v) ==
    <<letter>> \o FormatD(round_tens(truncated_range(v, PulseMin, PulseMax)), 4)

\* pulse_width ("C%04d") and off_time ("c%04d") setters:
\* set_process is round(2 * v, -1) / 2, applied to the truncated value
PulseTimingCommand(letter, v) ==
    <<letter>> \o FormatD(round_tens(2 * truncated_range(v, PulseMin, PulseMax)) \div 2, 4)

BoolSetters == {"external_enabled", "bias_enabled", "rf_enabled", "pulse_mode_enabled"}

\* variant: pulse mode is switched the wrong way round
BoolCommandPulseInverted(name, value) ==
    CASE name = "external_enabled" -> IF value THEN <<"R">> ELSE <<"r">>
      [] name = "bias_enabled" -> IF value THEN <<"X">> ELSE <<"x">>
      [] name = "rf_enabled" -> IF value THEN <<"O">> ELSE <<"o">>
      [] name = "pulse_mode_enabled" -> IF value THEN <<"p">> ELSE <<"P">>

\* the boolean property setters
BoolCommand(name, value) ==
    CASE name = "external_enabled" -> IF value THEN <<"R">> ELSE <<"r">>
      [] name = "bias_enabled" -> IF value THEN <<"X">> ELSE <<"x">>
      [] name = "rf_enabled" -> IF value THEN <<"O">> ELSE <<"o">>
      [] name = "pulse_mode_enabled" -> IF value THEN <<"P">> ELSE <<"p">>

\* freq_steps_fine_enabled = Instrument.control(..., "fm%d", values=[False, True],
\* set_process {True: 1, False: 0}); False and True are the integers 0 and 1
FreqStepsFineValues == {0, 1}
FreqStepsFineCommand(v) == <<"f", "m">> \o FormatD(IF v = 1 THEN 1 ELSE 0, 1)

\* variant: RF is enabled right after bias, without the settling delay
TurnOnStepsNoDelay == <<W(BoolCommand("bias_enabled", TRUE)),
                        W(BoolCommand("rf_enabled", TRUE))>>

TurnOnSteps == <<W(BoolCommand("bias_enabled", TRUE)), SL(SettleMs),
                 W(BoolCommand("rf_enabled", TRUE))>>
ShutdownSteps == <<W(BoolCommand("rf_enabled", FALSE)),
                   W(BoolCommand("bias_enabled", FALSE))>>

GetSteps(name) ==
    IF name \in BinGetters THEN <<W(GetCommand(name)), RB(name, GetNBytes(name))>>
    ELSE <<W(GetCommand(name)), RD(name)>>

\* ------------------------------------------------------------------ inputs
PowerLimits == {1, 100, MaxPowerLimit}
IllegalLimits == {0 - Margin, 0, MaxPowerLimit + 1, MaxPowerLimit + Margin}
Around(x) == (x - Margin)..(x + Margin)
PowerInputs == UNION {Around(x) : x \in {0, 100, 150, MaxPowerLimit}}
ReflectionInputs == UNION {Around(x) : x \in ReflectionLimitValues} \cup {120}
FineMid == (FineMin + FineMax) \div 2
FineInputs == Around(FineMin) \cup Around(FineMax)
              \cup ((FineMid + 5 - Margin)..(FineMid + 15 + Margin))
PhaseInputs == ((0 - Margin)..(25 + Margin)) \cup Around(1800)
               \cup Around(PhaseMaxTenths) \cup Around(3600)
PulseInputs == Around(PulseMin) \cup Around(PulseMax)
               \cup (((PulseMin + PulseMax) \div 2 - Margin)..((PulseMin + PulseMax) \div 2 + 10 + Margin))
FreqStepsFineInputs == FreqStepsFineValues \cup {2}
WriteCommands ==
    NoAckCommands
    \cup {GetCommand(n) : n \in BinGetters \cup ControlGetters}
    \cup {<<>>, <<"?">>, <<"V">>, <<"t">>, <<"5", "5">>, <<"v", "?">>, <<"?", "v">>,
          <<"z">>, <<"S", "E">>, <<"X">>, <<"f", "m", "1">>, <<"A", "1", "0", "0">>}

\* --------------------------------------------------------------------- Init
Idle == [t \in Threads |-> "idle"]

\* variant: a limit of zero passes the check
LimitAcceptedFromZero(limit) == 0 <= limit /\ limit <= MaxPowerLimit

\* __init__: assert 0 < power_limit <= 250
LimitAccepted(limit) == 0 < limit /\ limit <= MaxPowerLimit

\* __init__; when the assertion fails no handler is returned and the
\* attributes are never assigned
InitDriver(limit) ==
    /\ limit_arg = limit
    /\ constructed = LimitAccepted(limit)
    /\ power_limit = IF LimitAccepted(limit) THEN limit ELSE NoVal
    /\ power_setpoint_values =
           IF LimitAccepted(limit) THEN InitPowerSetpointValues(limit) ELSE <<>>
    /\ pc = Idle
    /\ op = [t \in Threads |-> [name |-> "", arg |-> 0]]
    /\ todo = [t \in Threads |-> <<>>]
    /\ sent = [t \in Threads |-> <<>>]
    /\ elapsed = [t \in Threads |-> 0]
    /\ nread = [t \in Threads |-> 0]
    /\ resp = [t \in Threads |-> <<>>]
    /\ result = [t \in Threads |-> NoResult]

\* a driver used from a single thread, no widget
Init ==
    /\ \E limit \in PowerLimits \cup IllegalLimits : InitDriver(limit)
    /\ py311 \in BOOLEAN
    /\ auto_read = FALSE
    /\ auto_write = FALSE
    /\ auto_read_box = FALSE
    /\ auto_write_box = FALSE
    /\ read_enabled = FALSE
    /\ write_enabled = FALSE
    /\ connected = FALSE
    /\ running = FALSE
    /\ should_stop = FALSE

\* ---------------------------------------------------------------- operations
Begin(t, name, arg, steps) ==
    /\ constructed
    /\ pc[t] = "idle"
    /\ pc' = [pc EXCEPT ![t] = "run"]
    /\ op' = [op EXCEPT ![t] = [name |-> name, arg |-> arg]]
    /\ todo' = [todo EXCEPT ![t] = steps]
    /\ sent' = [sent EXCEPT ![t] = <<>>]
    /\ elapsed' = [elapsed EXCEPT ![t] = 0]
    /\ nread' = [nread EXCEPT ![t] = 0]
    /\ resp' = [resp EXCEPT ![t] = <<>>]
    /\ result' = [result EXCEPT ![t] = NoResult]
    /\ UNCHANGED config_vars

\* the call raises before anything is sent
Refuse(t, name, arg, res) ==
    /\ constructed
    /\ pc[t] = "idle"
    /\ op' = [op EXCEPT ![t] = [name |-> name, arg |-> arg]]
    /\ todo' = [todo EXCEPT ![t] = <<>>]
    /\ sent' = [sent EXCEPT ![t] = <<>>]
    /\ elapsed' = [elapsed EXCEPT ![t] = 0]
    /\ nread' = [nread EXCEPT ![t] = 0]
    /\ resp' = [resp EXCEPT ![t] = <<>>]
    /\ result' = [result EXCEPT ![t] = res]
    /\ UNCHANGED <<pc, config_vars>>

\* Kusg245_250A.write(command) called directly
Write(t, command) ==
    /\ Begin(t, "write", 0, <<W(command)>>)
    /\ UNCHANGED widget_vars

Get(t, name) ==
    /\ Begin(t, name, 0, GetSteps(name))
    /\ UNCHANGED widget_vars

SetPowerSetpoint(t, v) ==
    /\ Begin(t, "power_setpoint=", v, <<W(PowerSetpointCommand(v, power_setpoint_values))>>)
    /\ UNCHANGED widget_vars

SetFrequencyFine(t, v) ==
    /\ Begin(t, "frequency_fine=", v, <<W(FrequencyFineCommand(v))>>)
    /\ UNCHANGED widget_vars

SetReflectionLimit(t, v) ==
    /\ Begin(t, "reflection_limit=", v, <<W(ReflectionLimitCommand(v))>>)
    /\ UNCHANGED widget_vars

SetPhaseShift(t, v) ==
    /\ Begin(t, "phase_shift=", v, <<W(PhaseShiftCommand(v))>>)
    /\ UNCHANGED widget_vars

SetPulseWidth(t, v) ==
    /\ Begin(t, "pulse_width=", v, <<W(PulseTimingCommand("C", v))>>)
    /\ UNCHANGED widget_vars

SetOffTime(t, v) ==
    /\ Begin(t, "off_time=", v, <<W(PulseTimingCommand("c", v))>>)
    /\ UNCHANGED widget_vars

SetBool(t, name, value) ==
    /\ Begin(t, name \o "=", IF value THEN 1 ELSE 0, <<W(BoolCommand(name, value))>>)
    /\ UNCHANGED widget_vars

SetFreqStepsFine(t, v) ==
    /\ IF strict_discrete_set(v, FreqStepsFineValues)
       THEN Begin(t, "freq_steps_fine_enabled=", v, <<W(FreqStepsFineCommand(v))>>)
       ELSE Refuse(t, "freq_steps_fine_enabled=", v,
                   Raised("ValueError", "not in the discrete set", NoVal))
    /\ UNCHANGED widget_vars

tune(t, power) ==
    /\ Begin(t, "tune", power, <<W(TuneCommand(power, power_limit))>>)
    /\ UNCHANGED widget_vars

clear_VSWR_error(t) ==
    /\ Begin(t, "clear_VSWR_error", 0, <<W(<<"z">>)>>)
    /\ UNCHANGED widget_vars

store_settings(t) ==
    /\ Begin(t, "store_settings", 0, <<W(<<"S", "E">>)>>)
    /\ UNCHANGED widget_vars

turn_on(t) ==
    /\ Begin(t, "turn_on", 0, TurnOnSteps)
    /\ UNCHANGED widget_vars

shutdown(t) ==
    /\ Begin(t, "shutdown", 0, ShutdownSteps)
    /\ UNCHANGED widget_vars

\* --------------------------------------------------------------------- steps
\* the operation goes on with `rest`, or returns when nothing is left
Continue(t, rest, res) ==
    /\ todo' = [todo EXCEPT ![t] = rest]
    /\ pc' = [pc EXCEPT ![t] = IF rest = <<>> THEN "idle" ELSE "run"]
    /\ result' = [result EXCEPT ![t] = IF rest = <<>> /\ res.status = "none" THEN Done ELSE res]

\* variant: the error is recorded but the operation goes on
RaiseAndGoOn(t, res) ==
    /\ todo' = todo
    /\ pc' = [pc EXCEPT ![t] = IF todo[t] = <<>> THEN "idle" ELSE "run"]
    /\ result' = [result EXCEPT ![t] = res]

\* an exception leaves the operation
Raise(t, res) ==
    /\ todo' = [todo EXCEPT ![t] = <<>>]
    /\ pc' = [pc EXCEPT ![t] = "idle"]
    /\ result' = [result EXCEPT ![t] = res]

AtStep(t, k) == pc[t] = "run" /\ todo[t] # <<>> /\ Head(todo[t]).k = k

\* write(): self.adapter.write(command), then the acknowledgement is awaited
AdapterWrite(t) ==
    /\ AtStep(t, "write")
    /\ LET command == Head(todo[t]).cmd
       IN  /\ sent' = [sent EXCEPT ![t] = Append(@, [cmd |-> command, at |-> elapsed[t]])]
           /\ IF _is_expecting_acknowledgement(command)
              THEN /\ pc' = [pc EXCEPT ![t] = "ack"]
                   /\ todo' = [todo EXCEPT ![t] = Tail(@)]
                   /\ UNCHANGED result
              ELSE Continue(t, Tail(todo[t]), result[t])
    /\ UNCHANGED <<config_vars, widget_vars, op, elapsed, nread, resp>>

\* variant: any non-empty reply is taken as the acknowledgement
AnyReplyAcknowledges(s) == s # <<>>

\* write(): the reply that lets write() return normally
IsAcknowledgement(s) == s = <<AckByte>>

\* write(): self.read() != "A" raises
ReadAck(t, b) ==
    /\ pc[t] = "ack"
    /\ nread' = [nread EXCEPT ![t] = @ + 1]
    /\ resp' = [resp EXCEPT ![t] = b]
    /\ IF ~HasTerm(b) THEN Raise(t, Raised("VisaIOError", "timeout", NoVal))
       ELSE IF ~IsAcknowledgement(read(b))
            THEN Raise(t, Raised("ConnectionError", "Expected acknowledgment.", NoVal))
            ELSE Continue(t, todo[t], result[t])
    /\ UNCHANGED <<config_vars, widget_vars, op, sent, elapsed>>

\* b = self.read_bytes(n) and the decoding that follows
ReadBytes(t, b) ==
    /\ AtStep(t, "read_bytes")
    /\ Len(b) = Head(todo[t]).n
    /\ nread' = [nread EXCEPT ![t] = @ + 1]
    /\ resp' = [resp EXCEPT ![t] = b]
    /\ LET res == Decode(Head(todo[t]).name, b, py311)
       IN  IF res.status = "raised" THEN Raise(t, res)
           ELSE Continue(t, Tail(todo[t]), res)
    /\ UNCHANGED <<config_vars, widget_vars, op, sent, elapsed>>

\* Instrument.control getter: read() and get_process
ReadText(t, b) ==
    /\ AtStep(t, "read")
    /\ nread' = [nread EXCEPT ![t] = @ + 1]
    /\ resp' = [resp EXCEPT ![t] = b]
    /\ IF ~HasTerm(b) THEN Raise(t, Raised("VisaIOError", "timeout", NoVal))
       ELSE LET res == GetProcess(Head(todo[t]).name, read(b))
            IN  IF res.status = "raised" THEN Raise(t, res)
                ELSE Continue(t, Tail(todo[t]), res)
    /\ UNCHANGED <<config_vars, widget_vars, op, sent, elapsed>>

\* time.sleep(0.500)
Sleep(t) ==
    /\ AtStep(t, "sleep")
    /\ elapsed' = [elapsed EXCEPT ![t] = @ + Head(todo[t]).n]
    /\ Continue(t, Tail(todo[t]), result[t])
    /\ UNCHANGED <<config_vars, widget_vars, op, sent, nread, resp>>

Caller == "gui"

Next ==
    \/ \E c \in WriteCommands : Write(Caller, c)
    \/ \E n \in BinGetters \cup ControlGetters : Get(Caller, n)
    \/ \E v \in PowerInputs : SetPowerSetpoint(Caller, v)
    \/ \E v \in FineInputs : SetFrequencyFine(Caller, v)
    \/ \E v \in ReflectionInputs : SetReflectionLimit(Caller, v)
    \/ \E v \in PhaseInputs : SetPhaseShift(Caller, v)
    \/ \E v \in PulseInputs : SetPulseWidth(Caller, v)
    \/ \E v \in PulseInputs : SetOffTime(Caller, v)
    \/ \E n \in BoolSetters, v \in BOOLEAN : SetBool(Caller, n, v)
    \/ \E v \in FreqStepsFineInputs : SetFreqStepsFine(Caller, v)
    \/ \E p \in PowerInputs : tune(Caller, p)
    \/ clear_VSWR_error(Caller)
    \/ store_settings(Caller)
    \/ turn_on(Caller)
    \/ shutdown(Caller)
    \/ AdapterWrite(Caller)
    \/ \E b \in AckReplies : ReadAck(Caller, b)
    \/ \E b \in BinReplies(2) \cup BinReplies(3) : ReadBytes(Caller, b)
    \/ \E b \in TextReplies : ReadText(Caller, b)
    \/ Sleep(Caller)

Spec == Init /\ [][Next]_vars


\* ------------------------------------------------- InstrumentControlWidget
\* the widget's parameter lists: an instance for the generator
measurements == <<"power_forward", "power_reverse">>
controls == <<"power_setpoint">>
settings == <<"reflection_limit">>
options == <<"rf_enabled">>
functions == {"turn_on", "shutdown", "clear_VSWR_error", "store_settings"}

update_list == measurements \o controls \o options \o settings

Elems(s) == {s[i] : i \in 1..Len(s)}

RECURSIVE Concat(_)
Concat(ss) == IF ss = <<>> THEN <<>> ELSE Head(ss) \o Concat(Tail(ss))

\* setattr(self.instrument, name, value)
SetCommand(name, v) ==
    IF name = "power_setpoint" THEN PowerSetpointCommand(v, power_setpoint_values)
    ELSE ReflectionLimitCommand(v)

\* get_and_update_all_values: measurements, settings, options, controls
ReadAllSteps ==
    Concat([i \in 1..Len(update_list) |->
                GetSteps((measurements \o settings \o options \o controls)[i])])

\* apply_all_settings: controls, then settings, each through apply_setting
ApplyAllSteps(vals) ==
    [i \in 1..Len(controls \o settings) |->
        W(SetCommand((controls \o settings)[i], vals[i]))]

FunctionSteps(f) ==
    CASE f = "turn_on" -> TurnOnSteps
      [] f = "shutdown" -> ShutdownSteps
      [] f = "clear_VSWR_error" -> <<W(<<"z">>)>>
      [] f = "store_settings" -> <<W(<<"S", "E">>)>>

GuiLimit == 100
GuiInputs == {0, 100, 150}
GuiAckReplies == {<<AckByte, TermByte>>, <<AckByte + 1, TermByte>>}
GuiBinReplies == {<<1, TermByte>>, <<1, AckByte + 1>>}
GuiTextReplies == {<<Ord0 + 1, Ord0, Ord0, TermByte>>, <<AckByte + 1>>}

\* the widget after __init__, on a generator with power_limit = GuiLimit
InitGui ==
    /\ InitDriver(GuiLimit)
    /\ py311 = TRUE
    /\ \E auto_get \in BOOLEAN, auto_set \in BOOLEAN :
          /\ auto_read = auto_get
          /\ auto_write = auto_set
          /\ connected = auto_set
          /\ auto_read_box = auto_get
          /\ auto_write_box = auto_set
          /\ read_enabled = ~auto_get
          /\ write_enabled = ~auto_set
          /\ running = auto_get
          /\ should_stop = ~auto_get

\* an element's valueChanged signal, connected to apply_setting(name)
apply_setting(name, v) ==
    /\ connected
    /\ Begin("gui", name \o "=", v, <<W(SetCommand(name, v))>>)
    /\ UNCHANGED widget_vars

\* the Write button
apply_all_settings(vals) ==
    /\ write_enabled
    /\ Begin("gui", "apply_all_settings", 0, ApplyAllSteps(vals))
    /\ UNCHANGED widget_vars

\* the Read button
get_and_update_all_values ==
    /\ read_enabled
    /\ Begin("gui", "get_and_update_all_values", 0, ReadAllSteps)
    /\ UNCHANGED widget_vars

\* a function button: clicked is connected to the instrument's method
FunctionButton(f) ==
    /\ Begin("gui", f, 0, FunctionSteps(f))
    /\ UNCHANGED widget_vars

\* _auto_settings_changed, up to update_thread.join(); box is the toggled checkbox
_auto_settings_changed(box) ==
    /\ pc["gui"] = "idle"
    /\ auto_read_box' = IF box = "auto_read" THEN ~auto_read_box ELSE auto_read_box
    /\ auto_write_box' = IF box = "auto_write" THEN ~auto_write_box ELSE auto_write_box
    /\ auto_read' = auto_read_box'
    /\ auto_write' = auto_write_box'
    /\ read_enabled' = ~auto_read'
    /\ write_enabled' = ~auto_write'
    /\ should_stop' = TRUE
    /\ pc' = [pc EXCEPT !["gui"] = "join"]
    /\ UNCHANGED <<config_vars, op, todo, sent, elapsed, nread, resp, result,
                   connected, running>>

\* variant: the thread is started whatever Auto Read says
JoinReturnsAlwaysStarts ==
    /\ pc["gui"] = "join"
    /\ ~running
    /\ running' = TRUE
    /\ should_stop' = FALSE
    /\ pc' = [pc EXCEPT !["gui"] = "idle"]
    /\ UNCHANGED <<config_vars, op, todo, sent, elapsed, nread, resp, result,
                   auto_read, auto_write, auto_read_box, auto_write_box,
                   read_enabled, write_enabled, connected>>

\* _auto_settings_changed, from the return of join(): start() if auto_read
JoinReturns ==
    /\ pc["gui"] = "join"
    /\ ~running
    /\ running' = auto_read
    /\ should_stop' = IF auto_read THEN FALSE ELSE should_stop
    /\ pc' = [pc EXCEPT !["gui"] = "idle"]
    /\ UNCHANGED <<config_vars, op, todo, sent, elapsed, nread, resp, result,
                   auto_read, auto_write, auto_read_box, auto_write_box,
                   read_enabled, write_enabled, connected>>

\* InstrumentThread.run: reads one name of the update list
PollGet(name) ==
    /\ running
    /\ ~should_stop
    /\ Begin("poll", name, 0, GetSteps(name))
    /\ UNCHANGED widget_vars

\* InstrumentThread.run returns once asked to stop
PollExit ==
    /\ running
    /\ should_stop
    /\ pc["poll"] = "idle"
    /\ running' = FALSE
    /\ UNCHANGED <<config_vars, pc, op, todo, sent, elapsed, nread, resp, result,
                   auto_read, auto_write, auto_read_box, auto_write_box,
                   read_enabled, write_enabled, connected, should_stop>>

NextGui ==
    \/ \E n \in Elems(controls \o settings), v \in GuiInputs : apply_setting(n, v)
    \/ \E v1 \in GuiInputs, v2 \in GuiInputs : apply_all_settings(<<v1, v2>>)
    \/ get_and_update_all_values
    \/ \E f \in functions : FunctionButton(f)
    \/ \E box \in {"auto_read", "auto_write"} : _auto_settings_changed(box)
    \/ JoinReturns
    \/ \E n \in Elems(update_list) : PollGet(n)
    \/ PollExit
    \/ \E t \in Threads : AdapterWrite(t)
    \/ \E t \in Threads, b \in GuiAckReplies : ReadAck(t, b)
    \/ \E t \in Threads, b \in GuiBinReplies : ReadBytes(t, b)
    \/ \E t \in Threads, b \in GuiTextReplies : ReadText(t, b)
    \/ \E t \in Threads : Sleep(t)

SpecGui == InitGui /\ [][NextGui]_vars


\* ================================================================ properties
Clamp(x, lo, hi) == IF x < lo THEN lo ELSE IF x > hi THEN hi ELSE x
Pow10(k) == IF k = 0 THEN 1 ELSE IF k = 1 THEN 10 ELSE IF k = 2 THEN 100
            ELSE IF k = 3 THEN 1000 ELSE IF k = 4 THEN 10000
            ELSE IF k = 5 THEN 100000 ELSE 1000000
\* the w-digit zero-padded decimal of n, 0 <= n < 10^w
Dec(n, w) == [i \in 1..w |-> Digits[((n \div Pow10(w - i)) % 10) + 1]]
Abs(x) == IF x < 0 THEN 0 - x ELSE x
Returned(t) == pc[t] = "idle" /\ result[t].status = "ok"
FirstCmd(t) == sent[t][1].cmd

\* C1: write(command) reads an acknowledgement after sending the command iff the
\* command is none of 'v','5','8','6','7','T' and does not end in '?'; otherwise
\* it sends the command and reads nothing.
C1_AckReadIffExpected ==
    \A t \in Threads :
        (op[t].name = "write" /\ sent[t] # <<>>) =>
            LET c == FirstCmd(t)
                expects == /\ c \notin {<<"v">>, <<"5">>, <<"8">>, <<"6">>, <<"7">>, <<"T">>}
                           /\ ~(Len(c) > 0 /\ c[Len(c)] = "?")
            IN  /\ Len(sent[t]) = 1
                /\ pc[t] \in {"ack", "idle"}
                /\ pc[t] = "ack" => expects /\ nread[t] = 0
                /\ pc[t] = "idle" => nread[t] = (IF expects THEN 1 ELSE 0)

C1_Witness ==
    \E t \in Threads :
        /\ op[t].name = "write"
        /\ sent[t] = <<[cmd |-> <<"f", "m", "?">>, at |-> 0]>>
        /\ Returned(t)
        /\ nread[t] = 0

\* C2: when the reply read where an acknowledgement is expected is not 'A', the
\* operation raises ConnectionError("Expected acknowledgment."), sends nothing
\* more (no retry) and leaves the configured power limit unchanged.
C2_WrongAckRaises ==
    [][\A t \in Threads :
          (/\ pc[t] = "ack"
           /\ nread'[t] = nread[t] + 1
           /\ Len(resp'[t]) = 2
           /\ resp'[t][2] = TermByte
           /\ resp'[t][1] # AckByte)
          => /\ result'[t].status = "raised"
             /\ result'[t].exc = "ConnectionError"
             /\ result'[t].msg = "Expected acknowledgment."
             /\ pc'[t] = "idle"
             /\ todo'[t] = <<>>
             /\ sent'[t] = sent[t]
             /\ power_limit' = power_limit
             /\ power_setpoint_values' = power_setpoint_values]_vars

C2_Witness ==
    \E t \in Threads :
        /\ op[t].name = "power_setpoint="
        /\ resp[t] = <<66, TermByte>>
        /\ Len(sent[t]) = 1
        /\ pc[t] = "idle"
        /\ result[t].exc = "ConnectionError"
        /\ result[t].msg = "Expected acknowledgment."

DecodingAccessors ==
    {"voltage_5v", "voltage_32v", "power_forward", "power_reverse", "external_enabled",
     "bias_enabled", "rf_enabled", "pulse_mode_enabled", "freq_steps_fine_enabled",
     "phase_shift", "reflection_limit"}

\* C3: for every decoding accessor and every response whose last byte is not the
\* termination byte, the accessor raises the framing error reporting that byte
\* and returns no value.
C3_BadTerminationRaisesFramingError ==
    \A t \in Threads :
        (/\ op[t].name \in DecodingAccessors
         /\ nread[t] > 0
         /\ resp[t][Len(resp[t])] # TermByte)
        => /\ result[t].status = "raised"
           /\ result[t].exc = "ConnectionError"
           /\ result[t].msg = "Invalid termination character received"
           /\ result[t].byte = resp[t][Len(resp[t])]

\* C4: with power limit L, setting power_setpoint to v transmits exactly 'A'
\* followed by the 3-digit decimal of v clamped to [0, L]; with L = 100 setting
\* 150 transmits 'A100'.
C4_SetpointClampedToLimit ==
    \A t \in Threads :
        op[t].name = "power_setpoint=" =>
            /\ Len(sent[t]) <= 1
            /\ pc[t] # "run" => Len(sent[t]) = 1
            /\ sent[t] # <<>> =>
                /\ FirstCmd(t) = <<"A">> \o Dec(Clamp(op[t].arg, 0, power_limit), 3)
                /\ (power_limit = 100 /\ op[t].arg = 150)
                      => FirstCmd(t) = <<"A", "1", "0", "0">>

C4_Witness ==
    \E t \in Threads :
        /\ power_limit = 100
        /\ op[t] = [name |-> "power_setpoint=", arg |-> 150]
        /\ sent[t] = <<[cmd |-> <<"A", "1", "0", "0">>, at |-> 0]>>
        /\ Returned(t)

\* C5: tune(p) issues exactly one command, 'b' followed by the 3-digit decimal of
\* p clamped to [0, power_limit]; the number is within 0..250 and never above
\* power_limit; nothing but the acknowledgement is read and no query follows.
C5_TuneClampedSingleCommand ==
    \A t \in Threads :
        op[t].name = "tune" =>
            LET n == Clamp(op[t].arg, 0, power_limit)
            IN  /\ Len(sent[t]) <= 1
                /\ pc[t] # "run" => Len(sent[t]) = 1
                /\ nread[t] <= 1
                /\ sent[t] # <<>> =>
                    /\ FirstCmd(t) = <<"b">> \o Dec(n, 3)
                    /\ n \in 0..250
                    /\ n <= power_limit

C5_Witness ==
    \E t \in Threads :
        /\ power_limit = 100
        /\ op[t] = [name |-> "tune", arg |-> 150]
        /\ sent[t] = <<[cmd |-> <<"b", "1", "0", "0">>, at |-> 0]>>
        /\ nread[t] = 1
        /\ Returned(t)

\* the commands written so far are a prefix of <<first, second>>, second later
\* than first by at least `gap` milliseconds
InOrder(t, first, second, gap) ==
    /\ Len(sent[t]) <= 2
    /\ Len(sent[t]) >= 1 => sent[t][1].cmd = first
    /\ Len(sent[t]) = 2 => /\ sent[t][2].cmd = second
                           /\ sent[t][2].at - sent[t][1].at >= gap

\* C6: turn_on writes bias-enable 'X' strictly before RF-enable 'O' with a
\* non-zero delay between them; shutdown writes RF-disable 'o' strictly before
\* bias-disable 'x'.
C6_BiasBeforeRf ==
    \A t \in Threads :
        /\ op[t].name = "turn_on" =>
              /\ InOrder(t, <<"X">>, <<"O">>, 1)
              /\ Returned(t) => Len(sent[t]) = 2
        /\ op[t].name = "shutdown" =>
              /\ InOrder(t, <<"o">>, <<"x">>, 0)
              /\ Returned(t) => Len(sent[t]) = 2

C6_Witness ==
    \E t \in Threads :
        /\ op[t].name = "turn_on"
        /\ Returned(t)
        /\ sent[t] = <<[cmd |-> <<"X">>, at |-> 0], [cmd |-> <<"O">>, at |-> 500]>>

LegalLimits == {0, 100, 150, 180, 200, 230}

\* C7: for v in {0,100,150,180,200,230} the reflection_limit setter transmits 'B'
\* and one digit c in 0..5, and the getter decodes the response <<c, '\r'>> to v.
C7_ReflectionLimitRoundTrip ==
    \A t \in Threads :
        (op[t].name = "reflection_limit=" /\ op[t].arg \in LegalLimits /\ sent[t] # <<>>)
        => /\ Len(sent[t]) = 1
           /\ \E c \in 0..5 :
                /\ FirstCmd(t) = <<"B", Digits[c + 1]>>
                /\ Decode("reflection_limit", <<c, TermByte>>, py311).status = "ok"
                /\ Decode("reflection_limit", <<c, TermByte>>, py311).val = op[t].arg
                /\ Decode("reflection_limit", <<c, TermByte>>, py311).den = 1

C7_Witness ==
    \E t \in Threads :
        /\ op[t] = [name |-> "reflection_limit=", arg |-> 230]
        /\ sent[t] = <<[cmd |-> <<"B", "5">>, at |-> 0]>>
        /\ Returned(t)

FineDecodes(t) ==
    (/\ op[t].name = "frequency_fine"
     /\ resp[t] = Text2450010 \o kHz \o <<TermByte>>)
    => /\ Returned(t)
       /\ result[t].val = 2450010
       /\ result[t].den = 1

\* C9 (as claimed): setting frequency_fine to v transmits 'f' and the 7-digit
\* decimal of v clamped to [2400000, 2500000] and rounded to the nearest 10, with
\* 2450005 transmitted as 2450010; "2450010kHz" decodes to 2450010.
C9_FineRoundedHalfUp ==
    \A t \in Threads :
        /\ FineDecodes(t)
        /\ (op[t].name = "frequency_fine=" /\ sent[t] # <<>>) =>
              LET c == Clamp(op[t].arg, 2400000, 2500000)
              IN  \E n \in (c - 5)..(c + 5) :
                    /\ n % 10 = 0
                    /\ FirstCmd(t) = <<"f">> \o Dec(n, 7)
                    /\ op[t].arg = 2450005 => n = 2450010

\* C9 (amended): the clamped value is rounded to the nearest multiple of 10 and a
\* value half-way between two goes to the even multiple of ten, so 2450005 is
\* transmitted as 2450000 (and 2450015 as 2450020); "2450010kHz" decodes to
\* 2450010.
C9_FineRoundedHalfEven ==
    \A t \in Threads :
        /\ FineDecodes(t)
        /\ op[t].name = "frequency_fine=" =>
              /\ Len(sent[t]) <= 1
              /\ pc[t] # "run" => Len(sent[t]) = 1
        /\ (op[t].name = "frequency_fine=" /\ sent[t] # <<>>) =>
              LET c == Clamp(op[t].arg, 2400000, 2500000)
              IN  \E n \in (c - 5)..(c + 5) :
                    /\ n % 10 = 0
                    /\ Abs(n - c) = 5 => (n \div 10) % 2 = 0
                    /\ FirstCmd(t) = <<"f">> \o Dec(n, 7)
                    /\ op[t].arg = 2450005 => n = 2450000
                    /\ op[t].arg = 2450015 => n = 2450020

C9_Witness ==
    \E t \in Threads :
        /\ op[t] = [name |-> "frequency_fine=", arg |-> 2450005]
        /\ sent[t] = <<[cmd |-> <<"f", "2", "4", "5", "0", "0", "0", "0">>, at |-> 0]>>
        /\ Returned(t)

\* a thread that has written a command and not yet read its reply
InFlight(t) ==
    \/ pc[t] = "ack"
    \/ /\ pc[t] = "run"
       /\ todo[t] # <<>>
       /\ Head(todo[t]).k \in {"read_bytes", "read"}

\* C10: at most one command/response exchange is in flight on the connection:
\* no thread writes a command between another thread's write and the read of
\* its reply.
C10_OneExchangeInFlight ==
    \A t, u \in Threads : (InFlight(t) /\ InFlight(u)) => t = u

\* C11: for every 3-byte response b0 b1 '\r' to the 5 V and 32 V queries the
\* raw count is b0 + 256 * b1 (little-endian, the module's byteorder), and the
\* accessor returns raw * 103 / 4700 volts (5 V) or raw * 1282 / 8200 volts (32 V).
C11_VoltageLittleEndian ==
    \A t \in Threads :
        (/\ op[t].name \in {"voltage_5v", "voltage_32v"}
         /\ pc[t] = "idle"
         /\ nread[t] = 1
         /\ Len(resp[t]) = 3
         /\ resp[t][3] = TermByte)
        => LET raw == resp[t][1] + 256 * resp[t][2]
           IN  /\ result[t].status = "ok"
               /\ result[t].val = (IF op[t].name = "voltage_5v" THEN 103 ELSE 1282) * raw
               /\ result[t].den = (IF op[t].name = "voltage_5v" THEN 4700 ELSE 8200)

\* C12: setting phase_shift to v (here in tenths of a degree) transmits 'H'
\* followed by the 3-digit zero-padded decimal of the 8-bit code
\* round(t / 360 * 256), t being v clamped to [0, 358.6]; the code is in 0..255.
C12_PhaseCodeRounded ==
    \A t \in Threads :
        (op[t].name = "phase_shift=" /\ sent[t] # <<>>) =>
            LET tenths == Clamp(op[t].arg, 0, 3586)
                code == (512 * tenths + 3600) \div 7200
            IN  /\ code \in 0..255
                /\ FirstCmd(t) = <<"H">> \o Dec(code, 3)

\* C13: for every integer v, setting pulse_width (letter 'C') or off_time
\* (letter 'c') to v transmits the letter followed by the 4-digit zero-padded
\* decimal of n, where n is v clamped to [10, 1000] and rounded to the nearest
\* multiple of 5; n is a multiple of 5 and 10 <= n <= 1000.
C13_PulseTimingMultipleOfFive ==
    \A t \in Threads :
        (op[t].name \in {"pulse_width=", "off_time="} /\ sent[t] # <<>>) =>
            LET c == Clamp(op[t].arg, 10, 1000)
                letter == IF op[t].name = "pulse_width=" THEN "C" ELSE "c"
            IN  \E n \in 10..1000 :
                    /\ n % 5 = 0
                    /\ \A m \in 0..201 : Abs(n - c) <= Abs(5 * m - c)
                    /\ Len(sent[t]) = 1
                    /\ FirstCmd(t) = <<letter>> \o Dec(n, 4)

C13_Witness ==
    \E t \in Threads :
        /\ op[t].name = "off_time="
        /\ op[t].arg = 1002
        /\ sent[t] = <<[cmd |-> <<"c", "1", "0", "0", "0">>, at |-> 0]>>
        /\ Returned(t)

\* C14: the reflection_limit getter, given a response with the correct
\* terminator and a data byte in 0..5, returns 0, 100, 150, 180, 200, 230 W for
\* the bytes 0, 1, 2, 3, 4, 5; a data byte outside 0..5 raises a decode error
\* and is never turned into a value.
C14_ReflectionLimitDecoded ==
    \A t \in Threads :
        (/\ op[t].name = "reflection_limit"
         /\ nread[t] = 1
         /\ Len(resp[t]) = 2
         /\ resp[t][2] = 13)
        => LET byte == resp[t][1]
           IN  /\ pc[t] = "idle"
               /\ byte = 0 => Returned(t) /\ result[t].val = 0 /\ result[t].den = 1
               /\ byte = 1 => Returned(t) /\ result[t].val = 100 /\ result[t].den = 1
               /\ byte = 2 => Returned(t) /\ result[t].val = 150 /\ result[t].den = 1
               /\ byte = 3 => Returned(t) /\ result[t].val = 180 /\ result[t].den = 1
               /\ byte = 4 => Returned(t) /\ result[t].val = 200 /\ result[t].den = 1
               /\ byte = 5 => Returned(t) /\ result[t].val = 230 /\ result[t].den = 1
               /\ byte \notin 0..5 => /\ result[t].status = "raised"
                                       /\ result[t].exc = "KeyError"
                                       /\ result[t].byte = byte
                                       /\ result[t].val = NoVal

C14_Witness ==
    \E t \in Threads :
        /\ op[t].name = "reflection_limit"
        /\ resp[t] = <<6, 13>>
        /\ pc[t] = "idle"
        /\ result[t].status = "raised"
        /\ result[t].exc = "KeyError"

\* C15: each boolean setter, given a boolean value (1 for true, 0 for false),
\* transmits exactly one command chosen by the truth of the value:
\* external_enabled 'R'/'r', bias_enabled 'X'/'x', rf_enabled 'O'/'o',
\* pulse_mode_enabled 'P'/'p', freq_steps_fine_enabled 'fm1'/'fm0'; the command
\* is followed by one acknowledgement read.
C15_BooleanSetterCommand ==
    \A t \in Threads :
        (/\ op[t].name \in {"external_enabled=", "bias_enabled=", "rf_enabled=",
                             "pulse_mode_enabled=", "freq_steps_fine_enabled="}
         /\ op[t].arg \in {0, 1})
        => LET on == op[t].arg = 1
               expected ==
                   CASE op[t].name = "external_enabled=" -> IF on THEN <<"R">> ELSE <<"r">>
                     [] op[t].name = "bias_enabled=" -> IF on THEN <<"X">> ELSE <<"x">>
                     [] op[t].name = "rf_enabled=" -> IF on THEN <<"O">> ELSE <<"o">>
                     [] op[t].name = "pulse_mode_enabled=" -> IF on THEN <<"P">> ELSE <<"p">>
                     [] OTHER -> IF on THEN <<"f", "m", "1">> ELSE <<"f", "m", "0">>
           IN  /\ pc[t] = "run" => sent[t] = <<>>
               /\ pc[t] # "run" =>
                     /\ Len(sent[t]) = 1
                     /\ FirstCmd(t) = expected
                     /\ pc[t] \in {"ack", "idle"}
                     /\ nread[t] = (IF pc[t] = "ack" THEN 0 ELSE 1)

C15_Witness ==
    \E t \in Threads :
        /\ op[t] = [name |-> "freq_steps_fine_enabled=", arg |-> 1]
        /\ sent[t] = <<[cmd |-> <<"f", "m", "1">>, at |-> 0]>>
        /\ nread[t] = 1
        /\ Returned(t)

\* C16: a handler exists only when the power_limit given at construction
\* satisfies 0 < power_limit <= 250 (construction with any other limit fails),
\* and after any sequence of calls, failing ones included, the limit applied by
\* the power_setpoint setter and the limit applied by tune both still equal
\* the construction value.
C16_LimitFixedAtConstruction ==
    /\ constructed <=> (0 < limit_arg /\ limit_arg <= 250)
    /\ ~constructed => \A t \in Threads : pc[t] = "idle" /\ op[t].name = "" /\ sent[t] = <<>>
    /\ constructed => power_limit = limit_arg /\ power_setpoint_values = <<0, limit_arg>>
    /\ \A t \in Threads :
          /\ (op[t].name = "power_setpoint=" /\ sent[t] # <<>>) =>
                FirstCmd(t) = <<"A">> \o Dec(Clamp(op[t].arg, 0, limit_arg), 3)
          /\ (op[t].name = "tune" /\ sent[t] # <<>>) =>
                FirstCmd(t) = <<"b">> \o Dec(Clamp(op[t].arg, 0, limit_arg), 3)

C16_Witness ==
    \E t \in Threads :
        /\ constructed
        /\ limit_arg = 100
        /\ op[t] = [name |-> "tune", arg |-> 150]
        /\ sent[t] = <<[cmd |-> <<"b", "1", "0", "0">>, at |-> 0]>>
        /\ pc[t] = "idle"
        /\ result[t].status = "raised"
        /\ power_limit = 100
        /\ power_setpoint_values = <<0, 100>>

\* C17: in turn_on and shutdown the second command is written only after the
\* first one was acknowledged with 'A'. If the reply to 'X' is not 'A', turn_on
\* raises and 'O' is never written; if the reply to 'o' is not 'A', shutdown
\* raises and 'x' is never written.
C17_SecondCommandOnlyAfterAck ==
    [][\A t \in Threads :
          op[t].name \in {"turn_on", "shutdown"} =>
            /\ (Len(sent[t]) = 1 /\ Len(sent'[t]) = 2) =>
                  /\ nread[t] = 1
                  /\ resp[t] = <<65, 13>>
                  /\ result[t].status # "raised"
                  /\ sent[t][1].cmd = (IF op[t].name = "turn_on" THEN <<"X">> ELSE <<"o">>)
                  /\ sent'[t][2].cmd = (IF op[t].name = "turn_on" THEN <<"O">> ELSE <<"x">>)
            /\ (/\ pc[t] = "ack"
                /\ Len(sent[t]) = 1
                /\ nread'[t] = nread[t] + 1
                /\ resp'[t] # <<65, 13>>) =>
                  /\ result'[t].status = "raised"
                  /\ pc'[t] = "idle"
                  /\ todo'[t] = <<>>
                  /\ sent'[t] = sent[t]]_vars

C17_Witness ==
    \E t \in Threads :
        /\ op[t].name = "turn_on"
        /\ sent[t] = <<[cmd |-> <<"X">>, at |-> 0]>>
        /\ resp[t] = <<66, 13>>
        /\ pc[t] = "idle"
        /\ todo[t] = <<>>
        /\ result[t].status = "raised"
        /\ result[t].exc = "ConnectionError"

\* C18: after construction of the widget and after every toggle of Auto Read
\* or Auto Write (once the handler has returned), the polling thread runs iff
\* Auto Read is checked, the Read button is enabled iff Auto Read is unchecked
\* and the Write button is enabled iff Auto Write is unchecked; a polling run
\* is started only after the previous one was asked to stop and has ended, so
\* at most one polling run is active.
C18_PollingFollowsAutoRead ==
    /\ [](pc["gui"] # "join" =>
            /\ running <=> auto_read_box
            /\ read_enabled <=> ~auto_read_box
            /\ write_enabled <=> ~auto_write_box)
    /\ [][/\ (pc["gui"] = "join" /\ pc'["gui"] # "join") => ~running /\ should_stop
          /\ (running' /\ ~running) => pc["gui"] = "join" /\ auto_read_box]_vars

C18_Witness ==
    /\ pc["gui"] = "idle"
    /\ connected /\ ~auto_write_box /\ write_enabled
    /\ auto_read_box /\ running /\ ~read_enabled
    /\ op["poll"].name = "power_forward"
    /\ pc["poll"] = "run"

\* C19: while Auto Write is unchecked, changing the value of a control or
\* setting element does not write to the instrument (values reach it only
\* through the Write button); this holds after any sequence of toggles,
\* whatever auto_set was at construction.
C19_NoWriteWhileAutoWriteOff ==
    [][(/\ pc["gui"] = "idle"
        /\ pc'["gui"] = "run"
        /\ op'["gui"].name \in {"power_setpoint=", "reflection_limit="})
       => auto_write_box]_vars

====
